---------------------------- MODULE Spec2Model ----------------------------
(***************************************************************************)
(* Model of src/src/components/HandTracking.tsx: region normalisation,     *)
(* duplicate removal, left/right slot assignment with temporal smoothing,  *)
(* the staleness rules, and the component's detection loops; and of the    *)
(* detection loop of the basic component in src/unnamed/part_000.          *)
(*                                                                         *)
(* Numbers.  Coordinates are pixels held in fixed point: the integer n     *)
(* stands for n / Scale px.  The smoothing factor 0.4 is the fraction      *)
(* smoothingFactor / FactorDen, so every blend new*0.4 + old*0.6 of two    *)
(* multiples of 5/Scale px is a multiple of 1/Scale px, and with at most   *)
(* MaxPasses passes every stored coordinate is represented exactly.        *)
(* Times are milliseconds as returned by Date.now().  SpecSmoothing alone   *)
(* computes the blend as JavaScript does, in IEEE 754 doubles.             *)
(*                                                                         *)
(* Specifications.  Spec: tracking passes of a capturing component.        *)
(* SpecDedup: removeDuplicateHands on arbitrary candidate lists.           *)
(* SpecLoop: the component, its camera selection and its detection loops.  *)
(* SpecLoopFair: SpecLoop with every requested animation frame run.        *)
(* SpecDetectorFaults: passes whose detector calls may reject or return    *)
(* hands with too few landmarks.                                           *)
(* SpecSmoothing: a slot smoothed with the same candidate repeatedly.      *)
(* SpecBasic: the basic component of src/unnamed/part_000.                 *)
(***************************************************************************)
EXTENDS Integers, Sequences, FiniteSets, TLC

(***************************************************************************)
(* Bounds of the model                                                     *)
(***************************************************************************)
\* passes of detectHands that reach the tracking step in one behaviour
MaxPasses == 2
\* landmarks per detected hand (the detector's 21, reduced)
NumLandmarks == 2
\* camera selections in one behaviour (each can start one detection loop)
MaxSelects == 2
\* longest list given to removeDuplicateHands on its own
MaxCandidates == 3
\* Date.now() when the session starts (any value above the stale timeouts)
StartTime == 2000
\* one-decimal coordinates tried as doubles: 100.1 .. 100.0 + MaxTenths / 10
MaxTenths == 100
\* passes that smooth the same candidate into a slot, in doubles
MaxRepeats == 3
\* frames the basic component draws in one behaviour
MaxFrames == 8

(***************************************************************************)
(* Program constants                                                       *)
(***************************************************************************)
\* const threshold = 100
threshold == 100
\* const smoothingFactor = 0.4, as smoothingFactor / FactorDen
smoothingFactor == 4
FactorDen == 10
\* currentTime - <other slot>.lastSeen > 500
crossHandStaleMs == 500
\* currentTime - <slot>.lastSeen > 1000
trackStaleMs == 1000
\* centerX when canvasRef.current is null
fallbackCenterX == 640
\* width of a <canvas> element whose width was never set
defaultCanvasWidth == 300
\* video.videoWidth of the camera in use (canvas.width = video.videoWidth)
videoWidth == 640

RECURSIVE Pow(_, _)
Pow(b, n) == IF n = 0 THEN 1 ELSE b * Pow(b, n - 1)

\* fixed-point denominator: a coordinate is smoothed at most MaxPasses - 1 times
Scale == Pow(5, MaxPasses - 1)

Abs(n) == IF n < 0 THEN -n ELSE n

(***************************************************************************)
(* The detector (external): raw detections                                 *)
(***************************************************************************)
\* one landmark [x, y, z] of a hand whose wrist is at pixel w = <<x, y>>;
\* landmark index 1 is the wrist (landmarks[0] of the source)
LandmarkOf(w, i) ==
    << (w[1] + 10 * (i - 1)) * Scale,
       (w[2] - 20 * (i - 1)) * Scale,
       (0 - 5 * (i - 1)) * Scale >>

\* a raw detection as model.estimateHands returns it, in the coordinates of
\* the image it was given
RawHand(w) ==
    [ landmarks |-> [i \in 1..NumLandmarks |-> LandmarkOf(w, i)],
      boundingBox |-> [ topLeft |-> << (w[1] - 30) * Scale, (w[2] - 50) * Scale >>,
                        bottomRight |-> << (w[1] + 30) * Scale, (w[2] + 30) * Scale >> ] ]

\* the lists estimateHands can return for wrists drawn from W: handpose
\* reports at most one hand per call
Detections(W) == { <<>> } \cup { << RawHand(w) >> : w \in W }

\* wrists the detector reports in the full frame, the left crop and the
\* right crop (crop-local pixels)
FullWrists == { <<100, 200>>, <<250, 200>> }
LeftWrists == { <<100, 300>> }
RightWrists == { <<0, 200>> }

\* Date.now() advances by one of these between two passes
TimeSteps == { 500, 501, 1001 }

(***************************************************************************)
(* removeDuplicateHands                                                    *)
(***************************************************************************)
\* landmarks[0][0], landmarks[0][1]
WristX(p) == p.landmarks[1][1]
WristY(p) == p.landmarks[1][2]

\* mutant: dist <= threshold
IsDuplicateOf_Inclusive(pred, existing) ==
    LET dx == Abs(pred.landmarks[1][1] - existing.landmarks[1][1])
        dy == Abs(pred.landmarks[1][2] - existing.landmarks[1][2])
        t  == threshold * Scale
    IN  /\ dx <= t
        /\ dy <= t
        /\ dx * dx + dy * dy <= t * t

\* dist < threshold, dist = sqrt(dx^2 + dy^2): compared on the squares, and
\* a |dx| or |dy| of threshold or more already decides it (keeps the squares
\* inside TLC's integers)
IsDuplicateOf(pred, existing) ==
    LET dx == Abs(WristX(pred) - WristX(existing))
        dy == Abs(WristY(pred) - WristY(existing))
        t  == threshold * Scale
    IN  /\ dx < t
        /\ dy < t
        /\ dx * dx + dy * dy < t * t

RECURSIVE DedupFrom(_, _)
DedupFrom(predictions, filtered) ==
    IF predictions = <<>> THEN filtered
    ELSE LET pred == Head(predictions)
             isDuplicate == \E k \in 1..Len(filtered) : IsDuplicateOf(pred, filtered[k])
         IN  DedupFrom(Tail(predictions),
                       IF isDuplicate THEN filtered ELSE Append(filtered, pred))

\* mutant: a duplicate replaces the accepted candidate it is close to
RECURSIVE DedupLastWins(_, _)
DedupLastWins(predictions, filtered) ==
    IF predictions = <<>> THEN filtered
    ELSE LET pred == Head(predictions)
         IN  DedupLastWins(Tail(predictions),
                IF \E k \in 1..Len(filtered) : IsDuplicateOf(pred, filtered[k])
                THEN [k \in 1..Len(filtered) |->
                        IF IsDuplicateOf(pred, filtered[k]) THEN pred ELSE filtered[k]]
                ELSE Append(filtered, pred))

removeDuplicateHands_LastWins(predictions) == DedupLastWins(predictions, <<>>)

\* mutant: a candidate is dropped when it is close to any earlier candidate,
\* accepted or not
RECURSIVE DedupAgainstAll(_, _, _)
DedupAgainstAll(predictions, i, filtered) ==
    IF i > Len(predictions) THEN filtered
    ELSE DedupAgainstAll(predictions, i + 1,
            IF \E j \in 1..(i - 1) : IsDuplicateOf(predictions[i], predictions[j])
            THEN filtered
            ELSE Append(filtered, predictions[i]))

removeDuplicateHands_AgainstAll(predictions) == DedupAgainstAll(predictions, 1, <<>>)

removeDuplicateHands(predictions) == DedupFrom(predictions, <<>>)

(***************************************************************************)
(* applyTemporalSmoothing                                                  *)
(***************************************************************************)
\* mutant: the weights of the new and the old value exchanged
Blend_Swapped(c, o) ==
    (c * (FactorDen - smoothingFactor) + o * smoothingFactor) \div FactorDen

\* c * factor + o * (1 - factor)
Blend(c, o) == (c * smoothingFactor + o * (FactorDen - smoothingFactor)) \div FactorDen

applyTemporalSmoothing(newLandmarks, oldLandmarks) ==
    IF Len(oldLandmarks) # Len(newLandmarks)
    THEN newLandmarks
    ELSE [i \in 1..Len(newLandmarks) |->
            << Blend(newLandmarks[i][1], oldLandmarks[i][1]),
               Blend(newLandmarks[i][2], oldLandmarks[i][2]),
               Blend(newLandmarks[i][3], oldLandmarks[i][3]) >>]


(***************************************************************************)
(* applyTemporalSmoothing as JavaScript computes it: IEEE 754 binary64,    *)
(* round to nearest, ties to even.  A natural number is the sequence of    *)
(* its digits in base LimbBase, least significant first, without leading   *)
(* zeros; a double is [m, e] with value m * 2^e, m of exactly 53 bits (or  *)
(* zero).  Coordinates here are non-negative and far from the subnormal    *)
(* and overflow ranges.                                                    *)
(***************************************************************************)
LimbBits == 13
LimbBase == 2 ^ LimbBits
MantissaBits == 53

Max(a, b) == IF a >= b THEN a ELSE b
Min(a, b) == IF a <= b THEN a ELSE b

Limb(a, i) == IF i <= Len(a) THEN a[i] ELSE 0

RECURSIVE NatTrim(_)
NatTrim(a) ==
    IF a = <<>> \/ a[Len(a)] # 0 THEN a ELSE NatTrim(SubSeq(a, 1, Len(a) - 1))

RECURSIVE NatOfInt(_)
NatOfInt(n) == IF n = 0 THEN <<>> ELSE << n % LimbBase >> \o NatOfInt(n \div LimbBase)

RECURSIVE AddFrom(_, _, _, _)
AddFrom(a, b, i, carry) ==
    IF i > Max(Len(a), Len(b))
    THEN IF carry = 0 THEN <<>> ELSE << carry >>
    ELSE LET t == Limb(a, i) + Limb(b, i) + carry
         IN  << t % LimbBase >> \o AddFrom(a, b, i + 1, t \div LimbBase)

NatAdd(a, b) == AddFrom(a, b, 1, 0)

\* a - b for a >= b
RECURSIVE SubFrom(_, _, _, _)
SubFrom(a, b, i, borrow) ==
    IF i > Len(a) THEN <<>>
    ELSE LET t == Limb(a, i) - Limb(b, i) - borrow
         IN  << IF t < 0 THEN t + LimbBase ELSE t >>
               \o SubFrom(a, b, i + 1, IF t < 0 THEN 1 ELSE 0)

NatSub(a, b) == NatTrim(SubFrom(a, b, 1, 0))

\* -1, 0 or 1 as a < b, a = b or a > b
RECURSIVE CmpFrom(_, _, _)
CmpFrom(a, b, i) ==
    IF i = 0 THEN 0
    ELSE IF a[i] < b[i] THEN -1
    ELSE IF a[i] > b[i] THEN 1
    ELSE CmpFrom(a, b, i - 1)

NatCmp(a, b) ==
    IF Len(a) < Len(b) THEN -1
    ELSE IF Len(a) > Len(b) THEN 1
    ELSE CmpFrom(a, b, Len(a))

\* digit k (from 0) of the product before carries: sum of a[i] * b[k + 2 - i]
RECURSIVE Column(_, _, _, _)
Column(a, b, k, i) ==
    IF i > Len(a) THEN 0
    ELSE Limb(a, i) * (IF k + 2 - i >= 1 THEN Limb(b, k + 2 - i) ELSE 0)
           + Column(a, b, k, i + 1)

RECURSIVE MulFrom(_, _, _, _)
MulFrom(a, b, k, carry) ==
    IF k > Len(a) + Len(b) - 1
    THEN NatOfInt(carry)
    ELSE LET t == Column(a, b, k - 1, 1) + carry
         IN  << t % LimbBase >> \o MulFrom(a, b, k + 1, t \div LimbBase)

NatMul(a, b) == IF a = <<>> \/ b = <<>> THEN <<>> ELSE NatTrim(MulFrom(a, b, 1, 0))

\* a * 2^n
NatShl(a, n) ==
    IF a = <<>> THEN <<>>
    ELSE [i \in 1..(n \div LimbBits) |-> 0]
           \o NatMul(a, << 2 ^ (n % LimbBits) >>)

\* a \div 2^n
NatShr(a, n) ==
    LET q == n \div LimbBits
        r == n % LimbBits
        d == IF q >= Len(a) THEN <<>> ELSE SubSeq(a, q + 1, Len(a))
    IN  NatTrim([i \in 1..Len(d) |->
                    (d[i] \div (2 ^ r)) + (Limb(d, i + 1) % (2 ^ r)) * (2 ^ (LimbBits - r))])

RECURSIVE IntBitLen(_)
IntBitLen(n) == IF n = 0 THEN 0 ELSE 1 + IntBitLen(n \div 2)

NatBitLen(a) ==
    IF a = <<>> THEN 0 ELSE (Len(a) - 1) * LimbBits + IntBitLen(a[Len(a)])

NatIsOdd(a) == a # <<>> /\ a[1] % 2 = 1

\* << quotient, remainder >> of a by a small d
RECURSIVE DivSmallFrom(_, _, _, _)
DivSmallFrom(a, d, i, rem) ==
    IF i = 0 THEN << <<>>, rem >>
    ELSE LET t == rem * LimbBase + a[i]
             rest == DivSmallFrom(a, d, i - 1, t % d)
         IN  << Append(rest[1], t \div d), rest[2] >>

NatDivSmall(a, d) ==
    LET r == DivSmallFrom(a, d, Len(a), 0)
    IN  << NatTrim(r[1]), r[2] >>

FZero == [ m |-> <<>>, e |-> 0 ]

\* the double nearest to n * 2^e, ties to even
Round53(n, e) ==
    LET len == NatBitLen(n)
    IN  IF len = 0 THEN FZero
        ELSE IF len <= MantissaBits
        THEN [ m |-> NatShl(n, MantissaBits - len), e |-> e - (MantissaBits - len) ]
        ELSE LET s == len - MantissaBits
                 q == NatShr(n, s)
                 r == NatSub(n, NatShl(q, s))
                 c == NatCmp(r, NatShl(<< 1 >>, s - 1))
                 up == c > 0 \/ (c = 0 /\ NatIsOdd(q))
                 q2 == IF up THEN NatAdd(q, << 1 >>) ELSE q
             IN  IF NatBitLen(q2) > MantissaBits
                 THEN [ m |-> NatShr(q2, 1), e |-> e + s + 1 ]
                 ELSE [ m |-> q2, e |-> e + s ]

FMul(a, b) == Round53(NatMul(a.m, b.m), a.e + b.e)

FAdd(a, b) ==
    IF a.m = <<>> THEN b
    ELSE IF b.m = <<>> THEN a
    ELSE LET e0 == Min(a.e, b.e)
         IN  Round53(NatAdd(NatShl(a.m, a.e - e0), NatShl(b.m, b.e - e0)), e0)

\* a - b for a >= b
FSub(a, b) ==
    IF b.m = <<>> THEN a
    ELSE LET e0 == Min(a.e, b.e)
         IN  Round53(NatSub(NatShl(a.m, a.e - e0), NatShl(b.m, b.e - e0)), e0)

\* the double a numeric literal num/den denotes (den a small positive integer):
\* the quotient to 66 binary places, its last bit made sticky, then rounded
DoubleOf(num, den) ==
    LET k == 5 * LimbBits + 1
        qr == NatDivSmall(NatShl(NatOfInt(num), k), den)
        q == IF qr[2] # 0 /\ ~NatIsOdd(qr[1]) THEN NatAdd(qr[1], << 1 >>) ELSE qr[1]
    IN  Round53(q, 0 - k)

\* const smoothingFactor = 0.4
factor64 == DoubleOf(smoothingFactor, FactorDen)

\* mutant: the old value is weighted by factor, not by 1 - factor
BlendDouble_SameWeight(c, o) == FAdd(FMul(c, factor64), FMul(o, factor64))

\* c * factor + o * (1 - factor)
BlendDouble(c, o) ==
    FAdd(FMul(c, factor64), FMul(o, FSub(DoubleOf(1, 1), factor64)))

\* [x, y, z] => [x * factor + old[0] * (1 - factor), ...]
SmoothLandmark64(landmark, old) ==
    [c \in 1..3 |-> BlendDouble(landmark[c], old[c])]

\* applyTemporalSmoothing on landmark lists of doubles
applyTemporalSmoothing64(newLandmarks, oldLandmarks) ==
    IF Len(oldLandmarks) # Len(newLandmarks)
    THEN newLandmarks
    ELSE [i \in 1..Len(newLandmarks) |-> SmoothLandmark64(newLandmarks[i], oldLandmarks[i])]

(***************************************************************************)
(* Region normalisation (detectHands, the allPredictions literal)          *)
(***************************************************************************)
\* const halfWidth = canvas.width / 2, canvas.width = video.videoWidth
halfWidth == (videoWidth * Scale) \div 2

\* { ...p, region: "full" }
TagFull(p) ==
    [ landmarks |-> p.landmarks, boundingBox |-> p.boundingBox, region |-> "full" ]

\* { ...p, region: "left", landmarks: p.landmarks.map(l => [l[0], l[1], l[2]]) }
TagLeft(p) ==
    [ landmarks |-> [i \in 1..Len(p.landmarks) |->
                        << p.landmarks[i][1], p.landmarks[i][2], p.landmarks[i][3] >>],
      boundingBox |-> p.boundingBox,
      region |-> "left" ]

\* mutant: the right-half landmarks are not translated
TagRight_NoOffset(p) ==
    [ landmarks |-> p.landmarks, boundingBox |-> p.boundingBox, region |-> "right" ]

\* { ...p, region: "right", landmarks: p.landmarks.map(l => [l[0] + halfWidth, l[1], l[2]]) }
TagRight(p) ==
    [ landmarks |-> [i \in 1..Len(p.landmarks) |->
                        << p.landmarks[i][1] + halfWidth, p.landmarks[i][2], p.landmarks[i][3] >>],
      boundingBox |-> p.boundingBox,
      region |-> "right" ]

Normalize(full, left, right) ==
    [i \in 1..Len(full) |-> TagFull(full[i])]
      \o [i \in 1..Len(left) |-> TagLeft(left[i])]
      \o [i \in 1..Len(right) |-> TagRight(right[i])]

(***************************************************************************)
(* assignHandsToTrackers                                                   *)
(***************************************************************************)
\* mutant: an element goes in before the elements of equal wrist x
RECURSIVE InsertByX_Unstable(_, _)
InsertByX_Unstable(sorted, p) ==
    IF sorted = <<>> THEN << p >>
    ELSE IF WristX(p) - WristX(Head(sorted)) <= 0
         THEN << p >> \o sorted
         ELSE << Head(sorted) >> \o InsertByX_Unstable(Tail(sorted), p)

\* predictions.sort((a, b) => aX - bX): Array.prototype.sort is stable, so an
\* element goes in after every element whose wrist x is not greater
RECURSIVE InsertByX(_, _)
InsertByX(sorted, p) ==
    IF sorted = <<>> THEN << p >>
    ELSE IF WristX(p) - WristX(Head(sorted)) < 0
         THEN << p >> \o sorted
         ELSE << Head(sorted) >> \o InsertByX(Tail(sorted), p)

RECURSIVE SortFrom(_, _)
SortFrom(predictions, sorted) ==
    IF predictions = <<>> THEN sorted
    ELSE SortFrom(Tail(predictions), InsertByX(sorted, Head(predictions)))

SortByWristX(predictions) == SortFrom(predictions, <<>>)

\* if (hand.predictions.length > 0) pred.landmarks = applyTemporalSmoothing(...)
Smoothed(pred, hand) ==
    IF Len(hand.predictions) > 0
    THEN [pred EXCEPT !.landmarks =
            applyTemporalSmoothing(pred.landmarks, hand.predictions[1].landmarks)]
    ELSE pred

\* canvasRef.current as assignHandsToTrackers can find it: the canvas the
\* pass sized to the video ("sized"), a canvas mounted after the pass began
\* and not sized yet ("unsized"), or null (the canvas is not rendered)
CanvasStates == { "sized", "unsized", "null" }

\* const centerX = canvasRef.current ? canvasRef.current.width / 2 : 640
centerX(canvas) ==
    IF canvas = "null" THEN fallbackCenterX * Scale
    ELSE IF canvas = "sized" THEN (videoWidth * Scale) \div 2
    ELSE (defaultCanvasWidth * Scale) \div 2

\* mutant: clearing a slot also resets its lastSeen
ClearIfOlder_ResetsLastSeen(hand, time, ms) ==
    IF time - hand.lastSeen > ms THEN [ predictions |-> <<>>, lastSeen |-> 0 ] ELSE hand

\* mutant: clearing a slot stamps it with the pass's time
ClearIfOlder_Touches(hand, time, ms) ==
    IF time - hand.lastSeen > ms THEN [ predictions |-> <<>>, lastSeen |-> time ] ELSE hand

\* mutant: cleared from exactly ms on
ClearIfOlder_Inclusive(hand, time, ms) ==
    IF time - hand.lastSeen >= ms THEN [hand EXCEPT !.predictions = <<>>] ELSE hand

\* if (currentTime - hand.lastSeen > ms) hand.predictions = []
ClearIfOlder(hand, time, ms) ==
    IF time - hand.lastSeen > ms THEN [hand EXCEPT !.predictions = <<>>] ELSE hand

\* the two-or-more branch
AssignTwo(sorted, time, left, right) ==
    [ left  |-> [ predictions |-> << Smoothed(sorted[1], left) >>, lastSeen |-> time ],
      right |-> [ predictions |-> << Smoothed(sorted[2], right) >>, lastSeen |-> time ] ]

\* mutant: the one-hand branch leaves the other slot alone
AssignOne_KeepsOpposite(pred, time, left, right, canvas) ==
    IF WristX(pred) < centerX(canvas)
    THEN [ left  |-> [ predictions |-> << Smoothed(pred, left) >>, lastSeen |-> time ],
           right |-> right ]
    ELSE [ left  |-> left,
           right |-> [ predictions |-> << Smoothed(pred, right) >>, lastSeen |-> time ] ]

\* mutant: the candidate is pushed onto the slot's list
AssignOne_Pushes(pred, time, left, right, canvas) ==
    IF WristX(pred) < centerX(canvas)
    THEN [ left  |-> [ predictions |-> Append(left.predictions, Smoothed(pred, left)),
                       lastSeen |-> time ],
           right |-> ClearIfOlder(right, time, crossHandStaleMs) ]
    ELSE [ left  |-> ClearIfOlder(left, time, crossHandStaleMs),
           right |-> [ predictions |-> Append(right.predictions, Smoothed(pred, right)),
                       lastSeen |-> time ] ]

\* the exactly-one branch
AssignOne(pred, time, left, right, canvas) ==
    IF WristX(pred) < centerX(canvas)
    THEN [ left  |-> [ predictions |-> << Smoothed(pred, left) >>, lastSeen |-> time ],
           right |-> ClearIfOlder(right, time, crossHandStaleMs) ]
    ELSE [ left  |-> ClearIfOlder(left, time, crossHandStaleMs),
           right |-> [ predictions |-> << Smoothed(pred, right) >>, lastSeen |-> time ] ]

\* "Clear old predictions"
SweepOld(hands, time) ==
    [ left  |-> ClearIfOlder(hands.left, time, trackStaleMs),
      right |-> ClearIfOlder(hands.right, time, trackStaleMs) ]

\* mutant: an empty list resets both slots
assignHandsToTrackers_EmptyResets(predictions, time, left, right, canvas) ==
    IF Len(predictions) = 0
    THEN [ left  |-> [ predictions |-> <<>>, lastSeen |-> time ],
           right |-> [ predictions |-> <<>>, lastSeen |-> time ] ]
    ELSE SweepOld(IF Len(predictions) >= 2
                  THEN AssignTwo(SortByWristX(predictions), time, left, right)
                  ELSE AssignOne(predictions[1], time, left, right, canvas),
                  time)

\* the values of leftHandRef.current and rightHandRef.current when
\* assignHandsToTrackers(predictions, time) returns
assignHandsToTrackers(predictions, time, left, right, canvas) ==
    IF Len(predictions) = 0
    THEN [ left |-> left, right |-> right ]
    ELSE LET sortedPredictions == SortByWristX(predictions)
         IN  SweepOld(IF Len(sortedPredictions) >= 2
                      THEN AssignTwo(sortedPredictions, time, left, right)
                      ELSE AssignOne(sortedPredictions[1], time, left, right, canvas),
                      time)

(***************************************************************************)
(* Exceptions of the tracking step.  Reading x[0][0] of a landmark list x  *)
(* without elements is a TypeError; nothing else between Date.now() and    *)
(* the end of drawHands throws on a list of detections.                    *)
(***************************************************************************)
\* pred.landmarks[0][0] - existing.landmarks[0][0] throws
WristReadThrows(pred, existing) == pred.landmarks = <<>> \/ existing.landmarks = <<>>

\* removeDuplicateHands throws: filtered.some(...) visits filtered in order
\* and stops at the first duplicate
RECURSIVE DedupThrowsFrom(_, _)
DedupThrowsFrom(predictions, filtered) ==
    IF predictions = <<>> THEN FALSE
    ELSE LET pred == Head(predictions)
             visited(k) == \A j \in 1..(k - 1) :
                              /\ ~WristReadThrows(pred, filtered[j])
                              /\ ~IsDuplicateOf(pred, filtered[j])
             isDuplicate == \E k \in 1..Len(filtered) :
                               /\ visited(k)
                               /\ ~WristReadThrows(pred, filtered[k])
                               /\ IsDuplicateOf(pred, filtered[k])
         IN  \/ \E k \in 1..Len(filtered) :
                   visited(k) /\ WristReadThrows(pred, filtered[k])
             \/ DedupThrowsFrom(Tail(predictions),
                                IF isDuplicate THEN filtered ELSE Append(filtered, pred))

removeDuplicateHandsThrows(predictions) == DedupThrowsFrom(predictions, <<>>)

\* assignHandsToTrackers throws: the comparator of sort reads the wrist of
\* every element of a list of two or more, the one-hand branch reads the
\* wrist of its candidate
assignHandsToTrackersThrows(predictions) ==
    \E i \in 1..Len(predictions) : predictions[i].landmarks = <<>>

(***************************************************************************)
(* State                                                                   *)
(***************************************************************************)
VARIABLES
    leftHandRef,             \* useRef<Hand>({ predictions: [], lastSeen: 0 })
    rightHandRef,
    clock,                   \* Date.now()
    \* the locals of the last pass of detectHands that reached the tracking step
    fullFramePredictions,
    leftRegionPredictions,
    rightRegionPredictions,
    currentTime,
    allPredictions,
    processedPredictions,
    canvasRef,               \* canvasRef.current as that pass found it
    prevLeft,                \* leftHandRef.current when that pass began tracking
    prevRight,
    passes,                  \* number of such passes so far
    caught,                  \* what the catch of the last pass to end caught
    \* one call of removeDuplicateHands
    predictions,             \* its argument
    filtered,                \* the list it returns
    returned,                \* whether it has returned
    \* the component and its detection loops
    isLoading,               \* useState(true)
    model,                   \* useState<HandPose | null>(null)
    error,                   \* error !== ""
    showCameraSelector,      \* useState(true)
    streamRef,               \* "null", "live" or "stopped" (its tracks)
    pendingGetUserMedia,     \* handleCameraSelect calls awaiting getUserMedia
    metadataPending,         \* loadedmetadata of the video's srcObject not yet fired
    animationFrameRef,       \* 0 (undefined) or the loop that requested the last frame
    canvasSized,             \* the mounted canvas has had its width set
    loops,                   \* per call of startDetection: where its detectHands is
    selects,                 \* calls of handleCameraSelect so far
    \* one slot fed the same candidate pass after pass, in doubles
    candidateLandmarks,      \* the candidate's landmarks
    storedLandmarks,         \* the landmarks of the slot's prediction
    resmoothed,              \* passes that smoothed the candidate into the slot
    \* the basic component of src/unnamed/part_000 (one full-frame detection
    \* per frame, drawn as it comes)
    basicStage,              \* where initializeHandTracking is
    basicMetadataPending,    \* onloadedmetadata set and not fired yet
    basicLoop,               \* where its detectHands loop is
    basicDrawn,              \* the predictions drawResults drew last
    basicFrames,             \* calls of drawResults so far
    basicMounted             \* the effect's cleanup has not run

passVars == << leftHandRef, rightHandRef, clock, fullFramePredictions,
               leftRegionPredictions, rightRegionPredictions, currentTime,
               allPredictions, processedPredictions, canvasRef,
               prevLeft, prevRight, passes >>

trackerVars == << passVars, caught >>

dedupVars == << predictions, filtered, returned >>

loopVars == << isLoading, model, error, showCameraSelector, streamRef,
               pendingGetUserMedia, metadataPending, animationFrameRef,
               canvasSized, loops, selects >>

smoothVars == << candidateLandmarks, storedLandmarks, resmoothed >>

basicVars == << basicStage, basicMetadataPending, basicLoop, basicDrawn,
                basicFrames, basicMounted >>

vars == << trackerVars, dedupVars, loopVars, smoothVars, basicVars >>

EmptyHand == [ predictions |-> <<>>, lastSeen |-> 0 ]

TrackerInit ==
    /\ leftHandRef = EmptyHand
    /\ rightHandRef = EmptyHand
    /\ clock = StartTime
    /\ fullFramePredictions = <<>>
    /\ leftRegionPredictions = <<>>
    /\ rightRegionPredictions = <<>>
    /\ currentTime = 0
    /\ allPredictions = <<>>
    /\ processedPredictions = <<>>
    /\ canvasRef = "sized"
    /\ prevLeft = EmptyHand
    /\ prevRight = EmptyHand
    /\ passes = 0
    /\ caught = "none"

DedupIdle ==
    /\ predictions = <<>>
    /\ filtered = <<>>
    /\ returned = FALSE

SmoothIdle ==
    /\ candidateLandmarks = <<>>
    /\ storedLandmarks = <<>>
    /\ resmoothed = 0

\* the basic component is not in use
BasicIdle ==
    /\ basicStage = "tfReady"
    /\ basicMetadataPending = FALSE
    /\ basicLoop = "none"
    /\ basicDrawn = <<>>
    /\ basicFrames = 0
    /\ basicMounted = TRUE

Loops == 1..MaxSelects

\* a detectHands closure: not created, waiting for its animation frame, at
\* one of the three awaits, or returned for good
NoLoop == [ pc |-> "none", fullFrame |-> <<>>, leftRegion |-> <<>> ]

\* the component while it captures: model loaded, camera chosen
Capturing ==
    /\ isLoading = FALSE
    /\ model = "loaded"
    /\ error = FALSE
    /\ showCameraSelector = FALSE
    /\ streamRef = "live"
    /\ pendingGetUserMedia = 0
    /\ metadataPending = FALSE
    /\ animationFrameRef = 0
    /\ canvasSized = TRUE
    /\ loops = [l \in Loops |-> NoLoop]
    /\ selects = 0

\* the tracking steps of a capturing component, whichever loop runs them
Init == TrackerInit /\ DedupIdle /\ Capturing /\ SmoothIdle /\ BasicIdle

\* detectHands from "const currentTime = Date.now()" to the call of drawHands:
\* one synchronous step over the three awaited detector results
TrackingStep(full, left, right, time, canvas) ==
    LET all == Normalize(full, left, right)
        dedupThrows == removeDuplicateHandsThrows(all)
        processed == IF dedupThrows THEN <<>> ELSE removeDuplicateHands(all)
        throws == dedupThrows \/ assignHandsToTrackersThrows(processed)
    IN  \E hands \in { IF throws
                       THEN [ left |-> leftHandRef, right |-> rightHandRef ]
                       ELSE assignHandsToTrackers(processed, time, leftHandRef,
                                                  rightHandRef, canvas) } :
        /\ fullFramePredictions' = full
        /\ leftRegionPredictions' = left
        /\ rightRegionPredictions' = right
        /\ currentTime' = time
        /\ allPredictions' = all
        /\ processedPredictions' = processed
        /\ canvasRef' = canvas
        /\ prevLeft' = leftHandRef
        /\ prevRight' = rightHandRef
        /\ leftHandRef' = hands.left
        /\ rightHandRef' = hands.right
        /\ passes' = passes + 1
        /\ caught' = IF throws THEN "tracking" ELSE "none"

\* one pass of detectHands whose three detector calls returned
detectHands ==
    /\ passes < MaxPasses
    /\ \E dt \in TimeSteps, canvas \in CanvasStates,
          full \in Detections(FullWrists),
          left \in Detections(LeftWrists),
          right \in Detections(RightWrists) :
            /\ clock' = clock + dt
            /\ TrackingStep(full, left, right, clock + dt, canvas)
    /\ UNCHANGED << dedupVars, loopVars, smoothVars, basicVars >>

Next == detectHands

Spec == Init /\ [][Next]_vars

(***************************************************************************)
(* Passes with a detector that can fail: a call may reject, or return a    *)
(* hand with too few landmarks                                             *)
(***************************************************************************)
\* a detection with one landmark too few, and one with none
ShortHand(w) ==
    [RawHand(w) EXCEPT !.landmarks = SubSeq(RawHand(w).landmarks, 1, NumLandmarks - 1)]
NoLandmarksHand(w) == [RawHand(w) EXCEPT !.landmarks = <<>>]

\* how a call of model.estimateHands can end
Resolves(hands) == [ ok |-> TRUE, hands |-> hands ]
Rejects == [ ok |-> FALSE, hands |-> <<>> ]

FullOutcomes ==
    { Resolves(<<>>), Resolves(<< RawHand(<<100, 200>>) >>),
      Resolves(<< ShortHand(<<250, 200>>) >>),
      Resolves(<< NoLandmarksHand(<<250, 200>>) >>), Rejects }
LeftOutcomes == { Resolves(<<>>), Resolves(<< RawHand(<<100, 300>>) >>), Rejects }
RightOutcomes ==
    { Resolves(<<>>), Resolves(<< RawHand(<<0, 200>>) >>),
      Resolves(<< ShortHand(<<0, 200>>) >>), Rejects }

\* Date.now() advances by one of these between two such passes
FaultTimeSteps == { 501 }

\* mutant: the catch resets both slots
CaughtPass_ResetsSlots(region, full, left) ==
    /\ caught' = region
    /\ fullFramePredictions' = full
    /\ leftRegionPredictions' = left
    /\ rightRegionPredictions' = <<>>
    /\ allPredictions' = <<>>
    /\ processedPredictions' = <<>>
    /\ prevLeft' = leftHandRef
    /\ prevRight' = rightHandRef
    /\ leftHandRef' = EmptyHand
    /\ rightHandRef' = EmptyHand
    /\ passes' = passes + 1
    /\ UNCHANGED << currentTime, canvasRef >>

\* the await of the detector call for region rejects: control goes to the
\* catch, which logs; full and left are the results already awaited
CaughtPass(region, full, left) ==
    /\ caught' = region
    /\ fullFramePredictions' = full
    /\ leftRegionPredictions' = left
    /\ rightRegionPredictions' = <<>>
    /\ allPredictions' = <<>>
    /\ processedPredictions' = <<>>
    /\ prevLeft' = leftHandRef
    /\ prevRight' = rightHandRef
    /\ passes' = passes + 1
    /\ UNCHANGED << leftHandRef, rightHandRef, currentTime, canvasRef >>

\* one pass of detectHands, from the first detector call to the catch
detectHandsWithFaults ==
    /\ passes < MaxPasses
    /\ \E dt \in FaultTimeSteps, full \in FullOutcomes,
          left \in LeftOutcomes, right \in RightOutcomes :
            /\ clock' = clock + dt
            /\ IF ~full.ok THEN CaughtPass("full", <<>>, <<>>)
               ELSE IF ~left.ok THEN CaughtPass("left", full.hands, <<>>)
               ELSE IF ~right.ok THEN CaughtPass("right", full.hands, left.hands)
               ELSE TrackingStep(full.hands, left.hands, right.hands, clock + dt, "sized")
    /\ UNCHANGED << dedupVars, loopVars, smoothVars, basicVars >>

FaultsNext == detectHandsWithFaults

SpecDetectorFaults == Init /\ [][FaultsNext]_vars

(***************************************************************************)
(* The component: model loading, camera selection, detection loops         *)
(***************************************************************************)
FirstRender ==
    /\ isLoading = TRUE
    /\ model = "null"
    /\ error = FALSE
    /\ showCameraSelector = TRUE
    /\ streamRef = "null"
    /\ pendingGetUserMedia = 0
    /\ metadataPending = FALSE
    /\ animationFrameRef = 0
    /\ canvasSized = FALSE
    /\ loops = [l \in Loops |-> NoLoop]
    /\ selects = 0

LoopInit == TrackerInit /\ DedupIdle /\ FirstRender /\ SmoothIdle /\ BasicIdle

\* what the component renders: the loading screen, else the error screen,
\* else the camera selector, else the video and the canvas
SelectorShown == ~isLoading /\ ~error /\ showCameraSelector
\* videoRef.current and canvasRef.current are non-null
VideoMounted == ~isLoading /\ ~error /\ ~showCameraSelector

Awaiting == { "awaitFull", "awaitLeft", "awaitRight" }
InPass(l) == loops[l].pc \in Awaiting
Alive(l) == loops[l].pc \in Awaiting \cup { "scheduled" }

\* streamRef.current.getTracks().forEach(track => track.stop())
StopTracks ==
    /\ streamRef' = IF streamRef = "live" THEN "stopped" ELSE streamRef
    /\ metadataPending' = IF streamRef = "live" THEN FALSE ELSE metadataPending

\* initializeModel: handpose.load() resolves
ModelLoads ==
    /\ isLoading
    /\ model' = "loaded"
    /\ isLoading' = FALSE
    /\ UNCHANGED << error, showCameraSelector, streamRef, pendingGetUserMedia,
                    metadataPending, animationFrameRef, canvasSized, loops, selects,
                    trackerVars, dedupVars, smoothVars, basicVars >>

\* initializeModel: tf.ready() or handpose.load() rejects
ModelFails ==
    /\ isLoading
    /\ error' = TRUE
    /\ isLoading' = FALSE
    /\ UNCHANGED << model, showCameraSelector, streamRef, pendingGetUserMedia,
                    metadataPending, animationFrameRef, canvasSized, loops, selects,
                    trackerVars, dedupVars, smoothVars, basicVars >>

\* handleCameraSelect up to "await navigator.mediaDevices.getUserMedia"
handleCameraSelect ==
    /\ SelectorShown
    /\ selects < MaxSelects
    /\ selects' = selects + 1
    /\ showCameraSelector' = FALSE
    /\ canvasSized' = FALSE
    /\ StopTracks
    /\ pendingGetUserMedia' = pendingGetUserMedia + 1
    /\ UNCHANGED << isLoading, model, error, animationFrameRef, loops,
                    trackerVars, dedupVars, smoothVars, basicVars >>

\* handleCameraSelect after the await: the stream is attached to the video
GetUserMediaResolves ==
    /\ pendingGetUserMedia > 0
    /\ pendingGetUserMedia' = pendingGetUserMedia - 1
    /\ IF VideoMounted
       THEN streamRef' = "live" /\ metadataPending' = TRUE
       ELSE UNCHANGED << streamRef, metadataPending >>
    /\ UNCHANGED << isLoading, model, error, showCameraSelector, animationFrameRef,
                    canvasSized, loops, selects, trackerVars, dedupVars,
                    smoothVars, basicVars >>

\* handleCameraSelect, the catch
GetUserMediaRejects ==
    /\ pendingGetUserMedia > 0
    /\ pendingGetUserMedia' = pendingGetUserMedia - 1
    /\ error' = TRUE
    /\ UNCHANGED << isLoading, model, showCameraSelector, streamRef, metadataPending,
                    animationFrameRef, canvasSized, loops, selects,
                    trackerVars, dedupVars, smoothVars, basicVars >>

\* what the detector reports to the loops of this specification: one hand or
\* none in the full frame, none in the crops
LoopFullWrists == { <<100, 200>> }
LoopCropWrists == {}

\* passes begun and not abandoned stay within MaxPasses
PassBudget == passes + Cardinality({ l \in Loops : InPass(l) }) < MaxPasses

\* detectHands from its first line to the first await, for a loop whose refs
\* are non-null: it waits for another frame while the video is not ready,
\* else sizes the canvas and calls the detector on the full frame
EnterPass(l) ==
    \/ /\ loops' = [loops EXCEPT ![l].pc = "scheduled"]
       /\ animationFrameRef' = l
       /\ UNCHANGED canvasSized
    \/ /\ PassBudget
       /\ streamRef # "null"
       /\ loops' = [loops EXCEPT ![l].pc = "awaitFull"]
       /\ canvasSized' = TRUE
       /\ UNCHANGED animationFrameRef

\* video.onloadedmetadata: play, setIsStreaming(true), startDetection()
LoadedMetadata ==
    /\ metadataPending
    /\ metadataPending' = FALSE
    /\ IF VideoMounted /\ model = "loaded"
       THEN LET l == CHOOSE k \in Loops :
                        /\ loops[k].pc = "none"
                        /\ \A j \in Loops : loops[j].pc = "none" => k <= j
            IN  EnterPass(l)
       ELSE UNCHANGED << loops, animationFrameRef, canvasSized >>
    /\ UNCHANGED << isLoading, model, error, showCameraSelector, streamRef,
                    pendingGetUserMedia, selects, trackerVars, dedupVars,
                    smoothVars, basicVars >>

\* the animation frame a loop requested arrives: detectHands runs again
AnimationFrame(l) ==
    /\ loops[l].pc = "scheduled"
    /\ IF VideoMounted
       THEN EnterPass(l)
       ELSE /\ loops' = [loops EXCEPT ![l].pc = "ended"]
            /\ UNCHANGED << animationFrameRef, canvasSized >>
    /\ UNCHANGED << isLoading, model, error, showCameraSelector, streamRef,
                    pendingGetUserMedia, metadataPending, selects,
                    trackerVars, dedupVars, smoothVars, basicVars >>

\* animationFrameRef.current = requestAnimationFrame(detectHands), the last
\* statement of a pass
RequestFrame(l) ==
    /\ loops' = [loops EXCEPT ![l] = [NoLoop EXCEPT !.pc = "scheduled"]]
    /\ animationFrameRef' = l

\* await model.estimateHands(video) resolves
FullFrameReturns(l) ==
    /\ loops[l].pc = "awaitFull"
    /\ \E full \in Detections(LoopFullWrists) :
          loops' = [loops EXCEPT ![l].pc = "awaitLeft", ![l].fullFrame = full]
    /\ UNCHANGED << isLoading, model, error, showCameraSelector, streamRef,
                    pendingGetUserMedia, metadataPending, animationFrameRef,
                    canvasSized, selects, trackerVars, dedupVars,
                    smoothVars, basicVars >>

\* await model.estimateHands(leftRegionCanvas) resolves
LeftRegionReturns(l) ==
    /\ loops[l].pc = "awaitLeft"
    /\ \E left \in Detections(LoopCropWrists) :
          loops' = [loops EXCEPT ![l].pc = "awaitRight", ![l].leftRegion = left]
    /\ UNCHANGED << isLoading, model, error, showCameraSelector, streamRef,
                    pendingGetUserMedia, metadataPending, animationFrameRef,
                    canvasSized, selects, trackerVars, dedupVars,
                    smoothVars, basicVars >>

\* await model.estimateHands(rightRegionCanvas) resolves: the tracking step,
\* drawHands and the request of the next frame
RightRegionReturns(l) ==
    /\ loops[l].pc = "awaitRight"
    /\ \E right \in Detections(LoopCropWrists), dt \in TimeSteps :
          /\ clock' = clock + dt
          /\ TrackingStep(loops[l].fullFrame, loops[l].leftRegion, right, clock + dt,
                          IF ~VideoMounted THEN "null"
                          ELSE IF canvasSized THEN "sized" ELSE "unsized")
    /\ RequestFrame(l)
    /\ UNCHANGED << isLoading, model, error, showCameraSelector, streamRef,
                    pendingGetUserMedia, metadataPending, canvasSized, selects,
                    dedupVars, smoothVars, basicVars >>

\* one of the awaited detector calls rejects: the catch logs it and the next
\* frame is requested
DetectorThrows(l) ==
    /\ InPass(l)
    /\ RequestFrame(l)
    /\ caught' = IF loops[l].pc = "awaitFull" THEN "full"
                 ELSE IF loops[l].pc = "awaitLeft" THEN "left" ELSE "right"
    /\ UNCHANGED << isLoading, model, error, showCameraSelector, streamRef,
                    pendingGetUserMedia, metadataPending, canvasSized, selects,
                    passVars, dedupVars, smoothVars, basicVars >>

\* the CHANGE CAMERA button
ChangeCamera ==
    /\ VideoMounted
    /\ showCameraSelector' = TRUE
    /\ StopTracks
    /\ loops' = IF animationFrameRef # 0 /\ loops[animationFrameRef].pc = "scheduled"
                THEN [loops EXCEPT ![animationFrameRef].pc = "ended"]
                ELSE loops
    /\ UNCHANGED << isLoading, model, error, pendingGetUserMedia, animationFrameRef,
                    canvasSized, selects, trackerVars, dedupVars,
                    smoothVars, basicVars >>

\* the RETRY button of the error screen
Retry ==
    /\ ~isLoading
    /\ error
    /\ error' = FALSE
    /\ showCameraSelector' = TRUE
    /\ UNCHANGED << isLoading, model, streamRef, pendingGetUserMedia, metadataPending,
                    animationFrameRef, canvasSized, loops, selects,
                    trackerVars, dedupVars, smoothVars, basicVars >>

LoopNext ==
    \/ ModelLoads
    \/ ModelFails
    \/ handleCameraSelect
    \/ GetUserMediaResolves
    \/ GetUserMediaRejects
    \/ LoadedMetadata
    \/ ChangeCamera
    \/ Retry
    \/ \E l \in Loops :
          \/ AnimationFrame(l)
          \/ FullFrameReturns(l)
          \/ LeftRegionReturns(l)
          \/ RightRegionReturns(l)
          \/ DetectorThrows(l)

SpecLoop == LoopInit /\ [][LoopNext]_vars

\* C10: no two detection-and-tracking passes are in progress at the same
\* time.
C10_OnePassAtATime ==
    Cardinality({ l \in Loops : InPass(l) }) <= 1

\* the other half of C10: at most one detection loop is alive
AtMostOneLoopAlive ==
    Cardinality({ l \in Loops : Alive(l) }) <= 1


\* C21: when capture is started and startDetection starts a detection loop,
\* neither slot holds a prediction.
C21_SessionStartsEmpty ==
    [][\A l \in Loops :
          (loops[l].pc = "none" /\ loops'[l].pc # "none")
             => /\ leftHandRef'.predictions = <<>>
                /\ rightHandRef'.predictions = <<>>]_vars

\* the browser runs every requested animation frame; nothing makes a
\* detector call return
SpecLoopFair == SpecLoop /\ \A l \in Loops : WF_vars(AnimationFrame(l))

\* C16: a detector call that does not return does not block the loop: a
\* pass in progress always comes to an end.
C16_HungDetectorDoesNotBlock ==
    \A l \in Loops : InPass(l) ~> ~InPass(l)

(***************************************************************************)
(* removeDuplicateHands on its own: any list of normalised candidates      *)
(***************************************************************************)
\* wrists (full-frame pixels): three within 20 px of each other, one at
\* exactly 100 px from the first, one close to a duplicate only, one far off
DedupWrists ==
    { <<100, 200>>, <<110, 210>>, <<120, 200>>, <<160, 280>>, <<210, 200>>, <<240, 200>> }

RegionOrder == << "full", "left", "right" >>

\* a normalised candidate with its wrist at w
Candidate(w, region) ==
    [ landmarks |-> RawHand(w).landmarks,
      boundingBox |-> RawHand(w).boundingBox,
      region |-> region ]

CandidateLists ==
    UNION { { [i \in 1..n |-> Candidate(ws[i], RegionOrder[((i - 1) % 3) + 1])] :
                ws \in [1..n -> DedupWrists] } : n \in 0..MaxCandidates }

DedupInit ==
    /\ TrackerInit
    /\ Capturing
    /\ SmoothIdle
    /\ BasicIdle
    /\ predictions \in CandidateLists
    /\ filtered = <<>>
    /\ returned = FALSE

CallRemoveDuplicateHands ==
    /\ ~returned
    /\ filtered' = removeDuplicateHands(predictions)
    /\ returned' = TRUE
    /\ UNCHANGED << predictions, trackerVars, loopVars, smoothVars, basicVars >>

DedupNext == CallRemoveDuplicateHands

SpecDedup == DedupInit /\ [][DedupNext]_vars

\* squared wrist-to-wrist distance and the squared threshold, in fixed point
WristDistSq(a, b) ==
    (WristX(a) - WristX(b)) * (WristX(a) - WristX(b))
      + (WristY(a) - WristY(b)) * (WristY(a) - WristY(b))

ThresholdSq == (100 * Scale) * (100 * Scale)

\* C2: the list removeDuplicateHands returns is no longer than its input and
\* any two candidates in it have wrists at least 100 apart; two candidates
\* exactly 100 apart are both kept.
C2_RetainedAreApart ==
    returned =>
        /\ Len(filtered) <= Len(predictions)
        /\ \A i, j \in 1..Len(filtered) :
              i # j => WristDistSq(filtered[i], filtered[j]) >= ThresholdSq
        /\ (Len(predictions) = 2
              /\ WristDistSq(predictions[1], predictions[2]) = ThresholdSq)
                 => filtered = predictions

\* two candidates exactly 100 apart went in and both came out
C2_Witness ==
    /\ returned
    /\ Len(predictions) = 2
    /\ WristDistSq(predictions[1], predictions[2]) = ThresholdSq
    /\ Len(filtered) = 2

\* C9: a non-empty list whose wrists are all pairwise closer than 100
\* deduplicates to exactly its first candidate.
C9_OneHandOneCandidate ==
    (/\ returned
     /\ predictions # <<>>
     /\ \A i, j \in 1..Len(predictions) :
           WristDistSq(predictions[i], predictions[j]) < ThresholdSq)
        => filtered = << predictions[1] >>

\* full, left and right detections of one hand, pairwise within 20 px
C9_Witness ==
    /\ returned
    /\ Len(predictions) = 3
    /\ \A i, j \in 1..3 :
          /\ i # j => predictions[i] # predictions[j]
          /\ WristDistSq(predictions[i], predictions[j]) <= (20 * Scale) * (20 * Scale)
    /\ filtered = << predictions[1] >>

\* the elements of list at the indices in K, in the order of list
RECURSIVE SubsequenceAt(_, _, _)
SubsequenceAt(list, K, i) ==
    IF i > Len(list) THEN <<>>
    ELSE (IF i \in K THEN << list[i] >> ELSE <<>>) \o SubsequenceAt(list, K, i + 1)

\* K is the set of indices a greedy first-seen-wins pass accepts: an index
\* is out exactly when its wrist is closer than 100 to that of an earlier
\* index that is in
GreedyAccepted(list, K) ==
    \A i \in 1..Len(list) :
        i \in K <=> ~ \E j \in K : j < i /\ WristDistSq(list[i], list[j]) < ThresholdSq

\* C18: the list removeDuplicateHands returns is the input restricted, in
\* input order, to the greedily accepted candidates: the first is kept, and
\* a later one is dropped iff it is closer than 100 to an earlier accepted
\* one.
C18_GreedyFirstSeenWins ==
    returned =>
        /\ predictions # <<>> => (filtered # <<>> /\ filtered[1] = predictions[1])
        /\ \E K \in SUBSET (1..Len(predictions)) :
              /\ GreedyAccepted(predictions, K)
              /\ filtered = SubsequenceAt(predictions, K, 1)

\* the third candidate is closer than 100 to the second, which was dropped
\* as a duplicate of the first, and is kept
C18_Witness ==
    /\ returned
    /\ Len(predictions) = 3
    /\ WristDistSq(predictions[2], predictions[1]) < ThresholdSq
    /\ WristDistSq(predictions[3], predictions[2]) < ThresholdSq
    /\ WristDistSq(predictions[3], predictions[1]) >= ThresholdSq
    /\ filtered = << predictions[1], predictions[3] >>

(***************************************************************************)
(* Properties of a tracking step                                           *)
(***************************************************************************)
\* slot prediction p is candidate c, up to the smoothing of its landmarks
IsCandidate(p, c) == [p EXCEPT !.landmarks = c.landmarks] = c

\* hand holds candidate c, assigned in the last pass
Received(hand, c) ==
    /\ hand.lastSeen = currentTime
    /\ Len(hand.predictions) = 1
    /\ IsCandidate(hand.predictions[1], c)

\* index, among the indices I of list, of the candidate with the smallest
\* wrist x, the earliest one on a tie
Leftmost(list, I) ==
    CHOOSE i \in I : \A j \in I :
        \/ WristX(list[i]) < WristX(list[j])
        \/ WristX(list[i]) = WristX(list[j]) /\ i <= j

\* C1: after a pass without candidates, a slot whose last update lies more
\* than 1000 ms before the pass's timestamp holds no prediction.
C1_StaleSlotClearedWithoutCandidates ==
    (passes > 0 /\ processedPredictions = <<>>) =>
        /\ (currentTime - leftHandRef.lastSeen > trackStaleMs
               => leftHandRef.predictions = <<>>)
        /\ (currentTime - rightHandRef.lastSeen > trackStaleMs
               => rightHandRef.predictions = <<>>)

\* C3: after a pass with two or more candidates the left slot holds the
\* candidate of smallest wrist x (the earliest on a tie), the right slot the
\* next one, no other candidate is held, and both slots carry the pass's
\* timestamp.
C3_TwoOrMoreCandidates ==
    (passes > 0 /\ Len(processedPredictions) >= 2) =>
        LET I == 1..Len(processedPredictions)
            first == Leftmost(processedPredictions, I)
            second == Leftmost(processedPredictions, I \ {first})
        IN  /\ Received(leftHandRef, processedPredictions[first])
            /\ Received(rightHandRef, processedPredictions[second])
            /\ \A k \in I \ {first, second} :
                  /\ ~IsCandidate(leftHandRef.predictions[1], processedPredictions[k])
                  /\ ~IsCandidate(rightHandRef.predictions[1], processedPredictions[k])

\* three candidates, the two leftmost tied on wrist x
C3_Witness ==
    /\ passes > 0
    /\ Len(processedPredictions) = 3
    /\ \E i, j \in 1..3 :
          /\ i < j
          /\ WristX(processedPredictions[i]) = WristX(processedPredictions[j])
          /\ \A k \in 1..3 : WristX(processedPredictions[i]) <= WristX(processedPredictions[k])
    /\ Len(leftHandRef.predictions) = 1
    /\ Len(rightHandRef.predictions) = 1

\* C4: after a pass with exactly one candidate, the candidate is in the left
\* slot if its wrist x is strictly left of half the frame width and in the
\* right slot otherwise; only the receiving slot's last-update time is set.
C4_SingleCandidateByMidpoint ==
    (passes > 0 /\ Len(processedPredictions) = 1) =>
        LET c == processedPredictions[1]
        IN  IF 2 * WristX(c) < videoWidth * Scale
            THEN /\ Received(leftHandRef, c)
                 /\ rightHandRef.lastSeen = prevRight.lastSeen
            ELSE /\ Received(rightHandRef, c)
                 /\ leftHandRef.lastSeen = prevLeft.lastSeen

\* the opposite slot after a single-candidate pass: cleared exactly when its
\* last update is more than 500 ms old, otherwise as it was
OppositeAsClaimed(hand, prev) ==
    /\ hand.lastSeen = prev.lastSeen
    /\ hand.predictions =
          IF currentTime - prev.lastSeen > 500 THEN <<>> ELSE prev.predictions

\* C5: in a single-candidate pass the slot opposite to the receiving one is
\* cleared iff the pass's timestamp exceeds its last update by more than
\* 500 ms; otherwise its prediction and last-update time are unchanged.
C5_OppositeSlot ==
    (passes > 0 /\ Len(processedPredictions) = 1) =>
        LET c == processedPredictions[1]
        IN  \/ Received(leftHandRef, c) /\ OppositeAsClaimed(rightHandRef, prevRight)
            \/ Received(rightHandRef, c) /\ OppositeAsClaimed(leftHandRef, prevLeft)

\* the right slot, 501 ms old, was cleared by a candidate given to the left
C5_Witness ==
    /\ passes > 0
    /\ Len(processedPredictions) = 1
    /\ Received(leftHandRef, processedPredictions[1])
    /\ prevRight.predictions # <<>>
    /\ currentTime - prevRight.lastSeen = 501
    /\ rightHandRef.predictions = <<>>

\* the landmarks stored for candidate c in a slot that held prev before
StoredAsClaimed(hand, prev, c) ==
    LET stored == hand.predictions[1].landmarks
    IN  IF prev.predictions # <<>>
        THEN /\ Len(stored) = Len(c.landmarks)
             /\ \A i \in 1..Len(stored) : \A k \in 1..3 :
                   10 * stored[i][k] =
                      4 * c.landmarks[i][k] + 6 * prev.predictions[1].landmarks[i][k]
        ELSE stored = c.landmarks

\* C6: a slot that receives a candidate stores new*0.4 + old*0.6 in every
\* coordinate of every landmark when it held a prediction before, and the
\* candidate's landmarks unchanged when it held none.
C6_Smoothing ==
    passes > 0 =>
        \A n \in 1..Len(processedPredictions) :
            LET c == processedPredictions[n]
            IN  /\ Received(leftHandRef, c) => StoredAsClaimed(leftHandRef, prevLeft, c)
                /\ Received(rightHandRef, c) => StoredAsClaimed(rightHandRef, prevRight, c)

\* a slot blended a candidate with a different prior prediction, the other
\* slot stored its candidate unsmoothed
C6_Witness ==
    /\ passes > 0
    /\ \E n, m \in 1..Len(processedPredictions) :
          /\ Received(leftHandRef, processedPredictions[n])
          /\ prevLeft.predictions # <<>>
          /\ leftHandRef.predictions[1].landmarks # processedPredictions[n].landmarks
          /\ leftHandRef.predictions[1].landmarks # prevLeft.predictions[1].landmarks
          /\ Received(rightHandRef, processedPredictions[m])
          /\ prevRight.predictions = <<>>

\* C8: allPredictions is the full-frame detections, then the left-half ones,
\* then the right-half ones; each is tagged with its region; a right-half
\* landmark has half the frame width added to x and keeps y and z; left-half
\* and full-frame landmarks keep their coordinates.
C8_Normalization ==
    LET nf == Len(fullFramePredictions)
        nl == Len(leftRegionPredictions)
        nr == Len(rightRegionPredictions)
    IN  /\ Len(allPredictions) = nf + nl + nr
        /\ \A i \in 1..nf :
              /\ allPredictions[i].region = "full"
              /\ allPredictions[i].landmarks = fullFramePredictions[i].landmarks
        /\ \A i \in 1..nl :
              /\ allPredictions[nf + i].region = "left"
              /\ allPredictions[nf + i].landmarks = leftRegionPredictions[i].landmarks
        /\ \A i \in 1..nr :
              LET p == allPredictions[nf + nl + i]
                  raw == rightRegionPredictions[i]
              IN  /\ p.region = "right"
                  /\ Len(p.landmarks) = Len(raw.landmarks)
                  /\ \A k \in 1..Len(raw.landmarks) :
                        /\ 2 * (p.landmarks[k][1] - raw.landmarks[k][1]) = videoWidth * Scale
                        /\ p.landmarks[k][2] = raw.landmarks[k][2]
                        /\ p.landmarks[k][3] = raw.landmarks[k][3]

\* all three regions reported a hand
C8_Witness ==
    /\ passes > 0
    /\ Len(fullFramePredictions) = 1
    /\ Len(leftRegionPredictions) = 1
    /\ Len(rightRegionPredictions) = 1
    /\ Len(allPredictions) = 3

\* C11: each slot holds at most one candidate, after any sequence of passes.
C11_AtMostOnePerSlot ==
    /\ Len(leftHandRef.predictions) <= 1
    /\ Len(rightHandRef.predictions) <= 1

\* a slot that held a candidate received another one, from a pass with three
C11_Witness ==
    /\ passes > 1
    /\ Len(processedPredictions) = 3
    /\ prevLeft.predictions # <<>>
    /\ Len(leftHandRef.predictions) = 1
    /\ Len(rightHandRef.predictions) = 1

\* C12: with timestamps that do not decrease from pass to pass, no step
\* decreases the lastSeen of a slot, a step that clears the slot included.
C12_LastSeenMonotone ==
    [][/\ leftHandRef'.lastSeen >= leftHandRef.lastSeen
       /\ rightHandRef'.lastSeen >= rightHandRef.lastSeen]_vars

\* the last pass cleared the left slot and left its lastSeen where it was
C12_Witness ==
    /\ passes > 1
    /\ prevLeft.predictions # <<>>
    /\ leftHandRef.predictions = <<>>
    /\ leftHandRef.lastSeen = prevLeft.lastSeen
    /\ leftHandRef.lastSeen > 0
    /\ rightHandRef.lastSeen = currentTime

\* C17: a pass without candidates leaves the lastSeen of both slots as it
\* was, and the prediction of every slot last updated at most 1000 ms before
\* the pass's timestamp.
C17_EmptyPassKeepsSlots ==
    (passes > 0 /\ processedPredictions = <<>>) =>
        /\ leftHandRef.lastSeen = prevLeft.lastSeen
        /\ rightHandRef.lastSeen = prevRight.lastSeen
        /\ (currentTime - prevLeft.lastSeen <= trackStaleMs
               => leftHandRef.predictions = prevLeft.predictions)
        /\ (currentTime - prevRight.lastSeen <= trackStaleMs
               => rightHandRef.predictions = prevRight.predictions)

\* a pass without candidates 500 ms after the left slot was filled
C17_Witness ==
    /\ passes > 1
    /\ processedPredictions = <<>>
    /\ prevLeft.predictions # <<>>
    /\ currentTime - prevLeft.lastSeen <= trackStaleMs
    /\ leftHandRef = prevLeft

\* C20: the bounding box of every right-half candidate has half the frame
\* width added to the x of both corners (and keeps their y).
C20_BoundingBoxTranslated ==
    LET nf == Len(fullFramePredictions)
        nl == Len(leftRegionPredictions)
    IN  \A i \in 1..Len(rightRegionPredictions) :
            LET box == allPredictions[nf + nl + i].boundingBox
                raw == rightRegionPredictions[i].boundingBox
            IN  /\ box.topLeft = << raw.topLeft[1] + halfWidth, raw.topLeft[2] >>
                /\ box.bottomRight = << raw.bottomRight[1] + halfWidth, raw.bottomRight[2] >>

\* the slots as the two-or-more or the one-hand branch of the last pass left
\* them, before "Clear old predictions"
AfterBranch ==
    LET sorted == SortByWristX(processedPredictions)
    IN  IF Len(sorted) >= 2
        THEN AssignTwo(sorted, currentTime, prevLeft, prevRight)
        ELSE AssignOne(sorted[1], currentTime, prevLeft, prevRight, canvasRef)

\* C22: after a pass with at least one candidate a slot that holds a
\* prediction was last updated at most 500 ms before the pass's timestamp,
\* and the final 1000 ms check cleared nothing the branch had left.
C22_HeldPredictionsAreFresh ==
    (passes > 0 /\ caught = "none" /\ processedPredictions # <<>>) =>
        /\ leftHandRef.predictions # <<>>
              => currentTime - leftHandRef.lastSeen <= crossHandStaleMs
        /\ rightHandRef.predictions # <<>>
              => currentTime - rightHandRef.lastSeen <= crossHandStaleMs
        /\ leftHandRef = AfterBranch.left
        /\ rightHandRef = AfterBranch.right

\* the left slot received the candidate and the right slot keeps a
\* prediction that is exactly 500 ms old
C22_Witness ==
    /\ passes > 1
    /\ Len(processedPredictions) = 1
    /\ leftHandRef.lastSeen = currentTime
    /\ rightHandRef.predictions # <<>>
    /\ currentTime - rightHandRef.lastSeen = crossHandStaleMs

\* a slot whose lastSeen changed holds a candidate of the pass, stamped with
\* the pass's time; a slot that lost its prediction keeps its lastSeen; an
\* empty slot that stays empty is as it was
LastSeenAsClaimed(hand, prev) ==
    /\ hand.lastSeen # prev.lastSeen
          => /\ hand.lastSeen = currentTime
             /\ \E n \in 1..Len(processedPredictions) :
                   Received(hand, processedPredictions[n])
    /\ (\E n \in 1..Len(processedPredictions) : Received(hand, processedPredictions[n]))
          \/ hand.lastSeen = prev.lastSeen
    /\ (prev.predictions # <<>> /\ hand.predictions = <<>>)
          => hand.lastSeen = prev.lastSeen
    /\ (prev.predictions = <<>> /\ hand.predictions = <<>>) => hand = prev

\* C23: lastSeen of a slot changes only when the pass assigns a candidate to
\* the slot, to the pass's timestamp; clearing the slot leaves it unchanged
\* and clearing an empty slot changes nothing.
C23_LastSeenOnlyOnAssignment ==
    passes > 0 =>
        /\ LastSeenAsClaimed(leftHandRef, prevLeft)
        /\ LastSeenAsClaimed(rightHandRef, prevRight)

\* the right slot, empty and never updated, went through both staleness
\* checks unchanged while the left slot, held before, was stamped anew
C23_Witness ==
    /\ passes > 1
    /\ Len(processedPredictions) = 1
    /\ prevLeft.predictions # <<>>
    /\ leftHandRef.lastSeen = currentTime
    /\ leftHandRef.lastSeen # prevLeft.lastSeen
    /\ prevRight.predictions = <<>>
    /\ currentTime - prevRight.lastSeen > trackStaleMs
    /\ rightHandRef = prevRight

(***************************************************************************)
(* Properties of passes with a failing detector                            *)
(***************************************************************************)
\* C13: the prediction of a slot, when present, has the full number of
\* landmarks, whatever the detector returns.
C13_SlotsHoldFullHands ==
    /\ leftHandRef.predictions # <<>>
          => Len(leftHandRef.predictions[1].landmarks) = NumLandmarks
    /\ rightHandRef.predictions # <<>>
          => Len(rightHandRef.predictions[1].landmarks) = NumLandmarks

\* C14: when the detector call for the left or the right half failed, the
\* hand the full frame reported before is in a slot, assigned in this pass.
C14_SucceededRegionsAssigned ==
    (/\ caught \in { "left", "right" }
     /\ fullFramePredictions # <<>>
     /\ Len(fullFramePredictions[1].landmarks) = NumLandmarks)
        => \E hand \in { leftHandRef, rightHandRef } :
              /\ hand.lastSeen = clock
              /\ Len(hand.predictions) = 1
              /\ IsCandidate(hand.predictions[1], TagFull(fullFramePredictions[1]))

\* a slot after a completed assignment and sweep: it received a candidate,
\* or it keeps its lastSeen and its prediction unless a staleness rule
\* cleared it, and holds nothing if older than 1000 ms
SlotAdvanced(hand, prev) ==
    \/ /\ hand.lastSeen = currentTime
       /\ Len(hand.predictions) = 1
    \/ /\ hand.lastSeen = prev.lastSeen
       /\ hand.predictions \in { prev.predictions, <<>> }
       /\ currentTime - hand.lastSeen > trackStaleMs => hand.predictions = <<>>

\* C19: a pass completes the assignment and the sweep or leaves both slots
\* as they were; a pass whose detector call or tracking step threw leaves
\* both as they were.
C19_PassIsAtomic ==
    passes > 0 =>
        IF caught # "none" \/ processedPredictions = <<>>
        THEN leftHandRef = prevLeft /\ rightHandRef = prevRight
        ELSE SlotAdvanced(leftHandRef, prevLeft) /\ SlotAdvanced(rightHandRef, prevRight)

\* the tracking step threw on a hand without landmarks while a slot was held
C19_Witness ==
    /\ passes > 1
    /\ caught = "tracking"
    /\ allPredictions # <<>>
    /\ prevLeft.predictions # <<>>
    /\ leftHandRef = prevLeft
    /\ rightHandRef = prevRight

(***************************************************************************)
(* applyTemporalSmoothing in doubles: a slot that holds a candidate's      *)
(* landmarks is given the same candidate again and again                   *)
(***************************************************************************)
\* coordinates with one decimal, 100.1 .. 100.0 + MaxTenths / 10, as the
\* doubles these decimals denote
CoordTenths == { 1000 + k : k \in 1..MaxTenths }

Landmark64(t) == << DoubleOf(t, 10), DoubleOf(2 * t + 1, 10), FZero >>

Landmarks64(t) == [i \in 1..NumLandmarks |-> Landmark64(t + i - 1)]

SmoothingInit ==
    /\ TrackerInit
    /\ DedupIdle
    /\ Capturing
    /\ BasicIdle
    /\ candidateLandmarks \in { Landmarks64(t) : t \in CoordTenths }
    /\ storedLandmarks = candidateLandmarks
    /\ resmoothed = 0

\* a pass hands the candidate to the slot that holds storedLandmarks:
\* landmarks: applyTemporalSmoothing(hand.landmarks, ...predictions[0].landmarks)
SmoothSameCandidate ==
    /\ resmoothed < MaxRepeats
    /\ storedLandmarks' = applyTemporalSmoothing64(candidateLandmarks, storedLandmarks)
    /\ resmoothed' = resmoothed + 1
    /\ UNCHANGED << candidateLandmarks, trackerVars, dedupVars, loopVars, basicVars >>

SmoothingNext == SmoothSameCandidate

SpecSmoothing == SmoothingInit /\ [][SmoothingNext]_vars

\* |a - b| <= n units in the last place of b, for doubles a and b
WithinUlps(a, b, n) ==
    IF a.m = <<>> \/ b.m = <<>> THEN a = b
    ELSE LET e0 == Min(a.e, b.e)
             am == NatShl(a.m, a.e - e0)
             bm == NatShl(b.m, b.e - e0)
             diff == IF NatCmp(am, bm) >= 0 THEN NatSub(am, bm) ELSE NatSub(bm, am)
         IN  NatCmp(diff, NatShl(NatOfInt(n), b.e - e0)) <= 0

\* C7 as stated: smoothing a candidate into a slot that already stores the
\* candidate's landmarks leaves exactly these landmarks, however often the
\* pass is repeated.
C7_FixedPointExact ==
    storedLandmarks = candidateLandmarks

\* C7, amended: after any number of such passes every stored coordinate is
\* within two units in the last place of the candidate's coordinate.
C7_FixedPointWithinTolerance ==
    \A i \in 1..Len(candidateLandmarks) : \A c \in 1..3 :
        /\ Len(storedLandmarks) = Len(candidateLandmarks)
        /\ WithinUlps(storedLandmarks[i][c], candidateLandmarks[i][c], 2)

\* every allowed repetition done, and rounding has moved a stored coordinate
\* off the candidate's while it stays within the tolerance
C7_Witness ==
    /\ resmoothed = MaxRepeats
    /\ storedLandmarks # candidateLandmarks
    /\ \A i \in 1..Len(candidateLandmarks) : \A c \in 1..3 :
          WithinUlps(storedLandmarks[i][c], candidateLandmarks[i][c], 2)

(***************************************************************************)
(* The basic component (src/unnamed/part_000): initialisation and the      *)
(* loop of detectHands and drawResults                                     *)
(***************************************************************************)
BasicInit == TrackerInit /\ DedupIdle /\ FirstRender /\ SmoothIdle /\ BasicIdle

\* videoRef.current and canvasRef.current are non-null: the component is
\* mounted and does not show its error screen
BasicRefs == basicMounted /\ basicStage # "failed"

\* await tf.ready() and await handpose.load() resolve
BasicAwaitResolves ==
    /\ basicStage \in { "tfReady", "load" }
    /\ basicStage' = IF basicStage = "tfReady" THEN "load" ELSE "getUserMedia"
    /\ UNCHANGED << basicMetadataPending, basicLoop, basicDrawn, basicFrames,
                    basicMounted, trackerVars, dedupVars, loopVars, smoothVars >>

\* await getUserMedia resolves: srcObject and onloadedmetadata are set,
\* setIsLoading(false)
BasicGetUserMediaResolves ==
    /\ basicStage = "getUserMedia"
    /\ basicStage' = "done"
    /\ basicMetadataPending' = BasicRefs
    /\ UNCHANGED << basicLoop, basicDrawn, basicFrames, basicMounted,
                    trackerVars, dedupVars, loopVars, smoothVars >>

\* one of the three awaits rejects: setError, setIsLoading(false)
BasicInitRejects ==
    /\ basicStage \in { "tfReady", "load", "getUserMedia" }
    /\ basicStage' = "failed"
    /\ UNCHANGED << basicMetadataPending, basicLoop, basicDrawn, basicFrames,
                    basicMounted, trackerVars, dedupVars, loopVars, smoothVars >>

\* detectHands up to its await: it returns when a ref or the model is missing
BasicEnter ==
    basicLoop' = IF BasicRefs THEN "awaiting" ELSE "returned"

\* video.onloadedmetadata: play and detectHands()
BasicLoadedMetadata ==
    /\ basicMetadataPending
    /\ basicMetadataPending' = FALSE
    /\ IF BasicRefs THEN BasicEnter ELSE UNCHANGED basicLoop
    /\ UNCHANGED << basicStage, basicDrawn, basicFrames, basicMounted,
                    trackerVars, dedupVars, loopVars, smoothVars >>

\* the requested animation frame arrives
BasicAnimationFrame ==
    /\ basicLoop = "scheduled"
    /\ basicFrames < MaxFrames
    /\ BasicEnter
    /\ UNCHANGED << basicStage, basicMetadataPending, basicDrawn, basicFrames,
                    basicMounted, trackerVars, dedupVars, loopVars, smoothVars >>

\* await model.estimateHands resolves: drawResults(predictions), then
\* animationId = requestAnimationFrame(detectHands)
BasicEstimateResolves ==
    /\ basicLoop = "awaiting"
    /\ \E drawn \in Detections(FullWrists) :
          IF BasicRefs
          THEN basicDrawn' = drawn /\ basicFrames' = basicFrames + 1
          ELSE UNCHANGED << basicDrawn, basicFrames >>
    /\ basicLoop' = "scheduled"
    /\ UNCHANGED << basicStage, basicMetadataPending, basicMounted,
                    trackerVars, dedupVars, loopVars, smoothVars >>

\* await model.estimateHands rejects: the catch logs the error; the request
\* of the next frame, inside the try, is skipped
BasicEstimateRejects ==
    /\ basicLoop = "awaiting"
    /\ basicLoop' = "caught"
    /\ UNCHANGED << basicStage, basicMetadataPending, basicDrawn, basicFrames,
                    basicMounted, trackerVars, dedupVars, loopVars, smoothVars >>

\* the cleanup of the effect: cancelAnimationFrame(animationId), the tracks
\* of the stream stopped, the model disposed
BasicUnmount ==
    /\ basicMounted
    /\ basicMounted' = FALSE
    /\ basicMetadataPending' = FALSE
    /\ basicLoop' = IF basicLoop = "scheduled" THEN "cancelled" ELSE basicLoop
    /\ UNCHANGED << basicStage, basicDrawn, basicFrames,
                    trackerVars, dedupVars, loopVars, smoothVars >>

BasicNext ==
    \/ BasicAwaitResolves
    \/ BasicGetUserMediaResolves
    \/ BasicInitRejects
    \/ BasicLoadedMetadata
    \/ BasicAnimationFrame
    \/ BasicEstimateResolves
    \/ BasicEstimateRejects
    \/ BasicUnmount

SpecBasic == BasicInit /\ [][BasicNext]_vars

\* C15: no per-frame error ends the loop: whenever a pass ends, by a caught
\* error or not, the next frame is requested.
C15_ErrorsDoNotEndTheLoop ==
    [][(basicLoop = "awaiting" /\ basicLoop' # "awaiting") => basicLoop' = "scheduled"]_vars

\* the same for the loops of the tracking component
C15_TrackingLoopReschedules ==
    [][\A l \in Loops :
          (InPass(l) /\ ~(loops'[l].pc \in Awaiting))
             => /\ loops'[l].pc = "scheduled"
                /\ animationFrameRef' = l]_vars

=============================================================================
